---- MODULE Spec2Model ----
(***************************************************************************)
(* CloudStackAIO: the request pipeline of CloudStack.request               *)
(* (src/CloudStackAIO/CloudStack.py).  One call of request() is modelled   *)
(* as a stack of coroutine frames: the job-status poll of _handle_response *)
(* is itself a call of request() (through __getattr__), so polling pushes  *)
(* a second frame.  The server is nondeterministic: every HTTP request is  *)
(* answered by any response of the finite universe Responses.              *)
(***************************************************************************)
EXTENDS Integers, Sequences, FiniteSets, TLC

VARIABLES
    call,      \* the invocation under way: [command, params], or NoCall
    stack,     \* coroutine frames of request(); the last one is running
    trace,     \* history: requests sent, responses received, sleeps taken
    pages,     \* history: payloads handed to the pagination step of the outer call
    outcome,   \* what the outer call handed to its caller: nothing yet, a value, an exception
    signing,   \* a parameter dict handed to _sign on its own: [arg, out, n]
    other,     \* a second call on the same client, suspended at an await
    wrapped    \* a call of a function decorated with add_signature: [args, kwargs, seen, raised]

vars == <<call, stack, trace, pages, outcome, signing, other, wrapped>>

(* ------------------------------ bounds --------------------------------- *)

\* HTTP requests one behaviour may issue (pages and polls together)
MaxRequests == 4

\* the configured max_page_size of the client under test
PageSize == 2

\* entries of a parameter dict handed to _sign on its own
MaxParams == 3

\* times _sign is applied in a row to the same dict
MaxSigns == 2

(* --------------------------- python values ----------------------------- *)

EmptyRec == [k \in {} |-> 0]

Dict(r) == [type |-> "dict", val |-> r]

List(s) == [type |-> "list", val |-> s]

None == [type |-> "NoneType", val |-> EmptyRec]

\* dict.get(k): <<v>> when present, <<>> for None
PyGet(d, k) == IF k \in DOMAIN d THEN <<d[k]>> ELSE <<>>

\* dict.update(b) on a
Update(a, b) == [k \in (DOMAIN a) \cup (DOMAIN b) |-> IF k \in DOMAIN b THEN b[k] ELSE a[k]]

\* the dict without key k (dict.pop(k, None) seen as a value)
Without(d, k) == [x \in (DOMAIN d) \ {k} |-> d[x]]

\* keys whose values are numbers in every payload of the universe: not iterable
IntKeys == {"count", "jobid", "jobstatus", "jobresultcode", "errorcode"}

(* ------------------------------ strings -------------------------------- *)

\* command names are sequences of characters, so that lower() and the
\* substring tests of request() are computed and not tabulated
ToLowerChar ==
    [A |-> "a", B |-> "b", C |-> "c", D |-> "d", E |-> "e", F |-> "f", G |-> "g",
     H |-> "h", I |-> "i", J |-> "j", K |-> "k", L |-> "l", M |-> "m", N |-> "n",
     O |-> "o", P |-> "p", Q |-> "q", R |-> "r", S |-> "s", T |-> "t", U |-> "u",
     V |-> "v", W |-> "w", X |-> "x", Y |-> "y", Z |-> "z"]

Lower(s) == [i \in 1..Len(s) |-> IF s[i] \in DOMAIN ToLowerChar THEN ToLowerChar[s[i]] ELSE s[i]]

\* sub in s
Contains(sub, s) ==
    \E i \in 1..(Len(s) - Len(sub) + 1) : SubSeq(s, i, i + Len(sub) - 1) = sub

ListMarker == <<"l", "i", "s", "t">>

QueryMarker ==
    <<"q", "u", "e", "r", "y", "a", "s", "y", "n", "c", "j", "o", "b", "r", "e", "s", "u", "l", "t">>

QueryAsyncJobResult ==
    <<"q", "u", "e", "r", "y", "A", "s", "y", "n", "c", "J", "o", "b", "R", "e", "s", "u", "l", "t">>

DeployCmd == <<"d", "e", "p", "l", "o", "y">>

ListCmd == <<"L", "i", "s", "t", "V", "M", "s">>

Commands == {DeployCmd, ListCmd, QueryAsyncJobResult}

\* 'list' in command.lower()
IsListCommand(command) == Contains(ListMarker, Lower(command))

\* a slip: the job-status query polls like any other command
AwaitAlways(command) == TRUE

\* await_final_result = 'queryasyncjobresult' not in command.lower()
AwaitFinalResult(command) == ~Contains(QueryMarker, Lower(command))

(* ------------------------------ signing -------------------------------- *)

ApiKey == "KEY"

ApiSecret == "SECRET"

\* every parameter name of the model, in the order sorted() gives (code points:
\* upper case before lower case)
KeyOrder ==
    <<"Name", "Zone", "apikey", "command", "jobid", "name", "page", "pagesize",
      "response", "signature", "test_disk", "test_image", "test_memory", "zone">>

LowerKey ==
    [Name |-> "name", Zone |-> "zone", apikey |-> "apikey", command |-> "command",
     jobid |-> "jobid", name |-> "name", page |-> "page", pagesize |-> "pagesize",
     response |-> "response", signature |-> "signature", test_disk |-> "test_disk",
     test_image |-> "test_image", test_memory |-> "test_memory", zone |-> "zone"]

LowerText ==
    [KEY |-> "key", key |-> "key", json |-> "json", Vm |-> "vm", vm |-> "vm",
     vm_image_centos |-> "vm_image_centos"] @@ ("100.0" :> "100.0")

\* a slip: the values signed as they are written
LowerValueAsIs(k, v) == v

\* str(value).lower() of one parameter value
LowerValue(k, v) ==
    IF k = "command" THEN Lower(v)
    ELSE IF k \in {"page", "pagesize", "jobid", "test_disk"} THEN v
    ELSE LowerText[v]

\* a dict is a sequence of <<key, value>> items in insertion order
KeysOf(items) == {items[i][1] : i \in 1..Len(items)}

ItemOf(items, k) == items[CHOOSE i \in 1..Len(items) : items[i][1] = k]

\* the place of a key in the order of code points
Rank(k) == CHOOSE i \in 1..Len(KeyOrder) : KeyOrder[i] = k

\* a slip: the items taken in insertion order
NotSorted(items) == items

\* sorted(url_parameters.items()): ascending by key
SortedItems(items) ==
    LET keys == SelectSeq(KeyOrder, LAMBDA k : k \in KeysOf(items))
    IN  [j \in 1..Len(keys) |-> ItemOf(items, keys[j])]

\* urlencode(sorted(...), safe='.-*_', quote_via=quote).lower(): the key=value
\* pairs of the request string (the names and values of the model hold no
\* character that quote() escapes)
UrlEncodeLower(items) ==
    LET sorted == SortedItems(items)
    IN  [i \in 1..Len(sorted) |->
            <<LowerKey[sorted[i][1]], LowerValue(sorted[i][1], sorted[i][2])>>]

\* base64(hmac-sha1(secret, request_string)): an injective image of its arguments
Hmac(secret, msg) == [hmac |-> msg, secret |-> secret]

\* a slip: the empty dict signed like any other
SignItemsAlways(items) ==
    LET p == SelectSeq(items, LAMBDA it : it[1] # "signature")
    IN  Append(p, <<"signature", Hmac(ApiSecret, UrlEncodeLower(p))>>)

\* _sign on the dict as python holds it: lines 210-215
SignItems(items) ==
    IF Len(items) = 0 THEN items
    ELSE LET p == SelectSeq(items, LAMBDA it : it[1] # "signature")
         IN  Append(p, <<"signature", Hmac(ApiSecret, UrlEncodeLower(p))>>)

\* the order in which request() fills kwargs: the caller's entries, then the
\* injected ones, then the signature
InsertionOrder ==
    <<"zone", "Zone", "name", "Name", "jobid", "apikey", "command", "response",
      "pagesize", "page", "signature">>

ItemsOf(d) ==
    LET keys == SelectSeq(InsertionOrder, LAMBDA k : k \in DOMAIN d)
    IN  [i \in 1..Len(keys) |-> <<keys[i], d[keys[i]]>>]

AsDict(items) == [k \in KeysOf(items) |-> ItemOf(items, k)[2]]

\* the request string of a dict of the model
RequestString(params) == UrlEncodeLower(ItemsOf(params))

\* a slip: a signature already present is kept
SignKeepingSignature(url_parameters) ==
    IF "signature" \in DOMAIN url_parameters THEN url_parameters
    ELSE Update(url_parameters, [signature |-> Hmac(ApiSecret, RequestString(url_parameters))])

\* _sign on the kwargs of request()
Sign(url_parameters) == AsDict(SignItems(ItemsOf(url_parameters)))

\* the entries _sign is tried on
ItemPool ==
    <<<<"Name", "Vm">>, <<"Name", "vm">>, <<"name", "vm">>, <<"Zone", "Vm">>,
      <<"zone", "vm">>, <<"apikey", "KEY">>, <<"signature", Hmac("OLD", <<>>)>>>>

\* the dicts _sign is tried on, as sequences of places in ItemPool: up to
\* MaxParams entries with different keys
SignInputs ==
    {ix \in UNION {[1..n -> 1..Len(ItemPool)] : n \in 0..MaxParams} :
        \A i, j \in 1..Len(ix) : ItemPool[ix[i]][1] = ItemPool[ix[j]][1] => i = j}

PoolItems(ix) == [i \in 1..Len(ix) |-> ItemPool[ix[i]]]

(* ----------------------------- the server ------------------------------ *)

PFull == [count |-> PageSize, response |-> <<"e1">>]

PFullTwoKeys == [count |-> PageSize + 1, response |-> <<"e2">>, other |-> <<"e3">>]

PShort == [count |-> PageSize - 1, response |-> <<"e2">>]

PText == [text |-> "hi"]

PJob == [jobid |-> 1]

PPending == [jobid |-> 2, jobstatus |-> 0]

PPendingNoJob == [jobstatus |-> 0]

POk == [jobid |-> 1, jobstatus |-> 1, jobresultcode |-> 0, jobresult |-> Dict(PText)]

POkList == [jobstatus |-> 1, jobresultcode |-> 0, jobresult |-> Dict(PShort)]

PFail == [jobid |-> 1, jobstatus |-> 1, jobresultcode |-> 255, errorcode |-> 255, errortext |-> "X"]

PFailBare == [jobstatus |-> 2, jobresultcode |-> 1]

PMissing == [jobstatus |-> 1, jobresultcode |-> 0, errorcode |-> 254, errortext |-> "Y"]

PNoCode == [jobstatus |-> 1]

POkFull == [jobstatus |-> 1, jobresultcode |-> 0, jobresult |-> Dict(PFull)]

PCountInt == [count |-> 1, jobstatus |-> 1]

Payloads ==
    <<PFull, PFullTwoKeys, PShort, EmptyRec, PText, PJob, PPending, PPendingNoJob,
      POk, POkList, PFail, PFailBare, PMissing, PNoCode, PCountInt, POkFull>>

\* the body of a response as text
JsonText == "{...}"

PlainText == "This is not a json response!"

Json(items) == [ctype |-> "application/json", json |-> TRUE, items |-> items, text |-> JsonText]

Wrap(key, value) == <<[key |-> key, value |-> value]>>

Responses ==
    [i \in 1..Len(Payloads) |-> Json(Wrap("a", Dict(Payloads[i])))]
    \o <<Json(Wrap("b", Dict(PText))),
         Json(Wrap("b", Dict(PShort))),
         Json(<<>>),
         Json(Wrap("a", Dict(PText)) \o Wrap("b", Dict(PShort))),
         Json(Wrap("a", List(<<"e1">>))),
         [ctype |-> "text/plain", json |-> FALSE, items |-> <<>>, text |-> PlainText],
         [ctype |-> "application/json", json |-> FALSE, items |-> <<>>, text |-> PlainText],
         [ctype |-> "text/plain", json |-> TRUE, items |-> Wrap("a", Dict(PText)), text |-> JsonText]>>

CallerParams == <<EmptyRec, [page |-> 3]>>

(* --------------------------- state and helpers ------------------------- *)

\* command and params are what request() receives; name and given are what
\* the caller wrote: request(command=name, **given) or client.name(**given)
NoCall == [command |-> <<>>, params |-> EmptyRec, via |-> "", name |-> <<>>, given |-> EmptyRec]

NoOutcome == [kind |-> "none", value |-> None]

NotSigning == [arg |-> <<>>, out |-> <<>>, n |-> 0]

NotWrapped == [args |-> 0, kwargs |-> <<>>, seen |-> <<>>, raised |-> "", done |-> FALSE]

Top == stack[Len(stack)]

Running == Len(stack) > 0

\* a call that the caller has not made yet
Idle == [call |-> NoCall, stack |-> <<>>, trace |-> <<>>, pages |-> <<>>, outcome |-> NoOutcome]

RequestsIn(t) == SelectSeq(t, LAMBDA e : e.ev = "request")

\* the requests sent so far, by the running call and by the suspended one
NumRequests == Len(RequestsIn(trace)) + Len(RequestsIn(other.trace))

Event(ev, params, resp) ==
    [ev |-> ev, level |-> Len(stack), params |-> params, resp |-> resp]

NoResp == [ctype |-> "", json |-> FALSE, items |-> <<>>, text |-> ""]

\* the running frame replaced by f
SetTop(f) == [stack EXCEPT ![Len(stack)] = f]

\* a slip: the pagination loop swallows the exception and hands back what
\* it has accumulated
RaiseSwallowed(exc) ==
    /\ stack' = <<>>
    /\ outcome' = [kind |-> "return", value |-> Dict(stack[1].final_data)]

\* an exception raised in the running frame: no frame of request() or
\* _handle_response() catches it, so it ends the outer call
Raise(exc) ==
    /\ stack' = <<>>
    /\ outcome' = [kind |-> "raise", value |-> exc]

Exception(type) ==
    [type |-> type, message |-> "", error_code |-> <<>>, error_text |-> <<>>, response |-> <<>>]

DecodeError ==
    [type |-> "CloudStackClientException",
     message |-> "Could not decode content. Server did not return json content!",
     error_code |-> <<>>, error_text |-> <<>>, response |-> <<>>]

\* a slip: the remote error code and text not passed on
AsyncJobErrorBare(data) ==
    [type |-> "CloudStackClientException",
     message |-> "Async CloudStack call failed!",
     error_code |-> <<>>, error_text |-> <<>>, response |-> <<Dict(data)>>]

AsyncJobError(data) ==
    [type |-> "CloudStackClientException",
     message |-> "Async CloudStack call failed!",
     error_code |-> PyGet(data, "errorcode"), error_text |-> PyGet(data, "errortext"),
     response |-> <<Dict(data)>>]

\* a slip: the wrapper key's name inspected before unwrapping
TransformDataByName(items) ==
    IF Len(items) = 0 THEN None
    ELSE IF items[1].key = "a" THEN items[1].value
    ELSE Dict([k \in {items[1].key} |-> items[1].value])

\* _transform_data: for key in data.keys(): return data[key]
TransformData(items) == IF Len(items) = 0 THEN None ELSE items[1].value

\* a slip: the caller's own page kept as the first page of a list command
RequestEntryCallerPage(command, params) ==
    LET k1 == Update(params, [apikey |-> ApiKey, command |-> command, response |-> "json"])
        k2 == IF IsListCommand(command)
              THEN Update(k1, [pagesize |-> PageSize,
                               page |-> IF "page" \in DOMAIN params THEN params.page ELSE 1])
              ELSE k1
    IN  [command |-> command, kwargs |-> k2, final_data |-> EmptyRec, data |-> None, pc |-> "get"]

\* the frame request() starts with: lines 125-130
RequestEntry(command, params) ==
    LET k1 == Update(params, [apikey |-> ApiKey, command |-> command, response |-> "json"])
        k2 == IF IsListCommand(command)
              THEN Update(k1, [pagesize |-> PageSize, page |-> 1])
              ELSE k1
    IN  [command |-> command, kwargs |-> k2, final_data |-> EmptyRec, data |-> None, pc |-> "get"]

\* the loop test of _handle_response (line 181) on `data`, and what follows:
\* another round of polling, or the return of data to request()
WhileJobId(frame, data) ==
    IF ~AwaitFinalResult(frame.command)
    THEN /\ stack' = SetTop([frame EXCEPT !.data = data, !.pc = "paginate"])
         /\ UNCHANGED outcome
    ELSE IF data.type = "NoneType"
    THEN Raise(Exception("TypeError"))
    ELSE IF data.type = "dict" /\ "jobid" \in DOMAIN data.val
    THEN /\ stack' = SetTop([frame EXCEPT !.data = data, !.pc = "sleep"])
         /\ UNCHANGED outcome
    ELSE /\ stack' = SetTop([frame EXCEPT !.data = data, !.pc = "paginate"])
         /\ UNCHANGED outcome

\* request() returns value: to the caller of the outer call, or to the
\* poll loop that awaits queryAsyncJobResult (line 183)
Return(value) ==
    IF Len(stack) = 1
    THEN /\ stack' = <<>>
         /\ outcome' = [kind |-> "return", value |-> value]
    ELSE /\ stack' = [SubSeq(stack, 1, Len(stack) - 1) EXCEPT
                         ![Len(stack) - 1] = [@ EXCEPT !.data = value, !.pc = "polled"]]
         /\ UNCHANGED outcome

\* a slip: the page's elements put in front of the accumulated ones
AccumulatePrepended(final_data, data) ==
    [k \in (DOMAIN final_data) \cup (DOMAIN data) |->
        IF k \in DOMAIN data
        THEN data[k] \o (IF k \in DOMAIN final_data THEN final_data[k] ELSE <<>>)
        ELSE final_data[k]]

\* final_data.setdefault(key, []).extend(value) for every key of data
Accumulate(final_data, data) ==
    [k \in (DOMAIN final_data) \cup (DOMAIN data) |->
        IF k \in DOMAIN data
        THEN (IF k \in DOMAIN final_data THEN final_data[k] ELSE <<>>) \o data[k]
        ELSE final_data[k]]

\* final_data['count'] = final_data.setdefault('count', 0) + count
AddCount(final_data, count) ==
    Update(final_data,
           [count |-> (IF "count" \in DOMAIN final_data THEN final_data["count"] ELSE 0) + count])

\* a slip: a page of exactly max_page_size items taken for the last one
LastPageInclusive(count) == count <= PageSize

\* count < self.max_page_size
LastPage(count) == count < PageSize

\* a slip: the empty page returned as it is
EmptyPageIgnored(data) == FALSE

\* a slip: every page without count answered with the accumulator
EmptyPageAlways(data) == TRUE

\* `not data` (line 138): the payload without count is empty
EmptyPage(data) == DOMAIN data = {}

\* lines 185-187: exit code zero and data['jobresult'] raises no KeyError
JobSucceeded(data) == data.jobresultcode = 0 /\ "jobresult" \in DOMAIN data

\* a slip: the job-status payload returned instead of its jobresult
JobResultWrapped(data) == Dict(data)

\* line 187: what the poll loop returns for a succeeded job
JobResult(data) == data.jobresult

(* ------------------------------ actions -------------------------------- *)

Init ==
    /\ call = NoCall
    /\ stack = <<>>
    /\ trace = <<>>
    /\ pages = <<>>
    /\ outcome = NoOutcome
    /\ signing = NotSigning
    /\ other = Idle
    /\ wrapped = NotWrapped

\* the caller invokes request(command, **params)
Request(command, params) ==
    /\ UNCHANGED <<signing, other, wrapped>>
    /\ call = NoCall
    /\ call' = [command |-> command, params |-> params,
                via |-> "request", name |-> command, given |-> params]
    /\ stack' = <<RequestEntry(command, params)>>
    /\ UNCHANGED <<trace, pages, outcome>>

\* a slip: the next page requested speculatively together with this one
GetSpeculative ==
    /\ UNCHANGED <<signing, other, wrapped>>
    /\ Running
    /\ Top.pc = "get"
    /\ NumRequests < MaxRequests
    /\ LET signed == Sign(Top.kwargs)
           ahead == IF "page" \in DOMAIN signed
                    THEN <<Event("request", Sign([signed EXCEPT !.page = @ + 1]), NoResp)>>
                    ELSE <<>>
       IN  /\ stack' = SetTop([Top EXCEPT !.kwargs = signed, !.pc = "response"])
           /\ trace' = Append(trace, Event("request", signed, NoResp)) \o ahead
    /\ UNCHANGED <<call, pages, outcome>>

\* line 132: sign kwargs in place and issue the GET
Get ==
    /\ UNCHANGED <<signing, other, wrapped>>
    /\ Running
    /\ Top.pc = "get"
    /\ NumRequests < MaxRequests
    /\ LET signed == Sign(Top.kwargs)
       IN  /\ stack' = SetTop([Top EXCEPT !.kwargs = signed, !.pc = "response"])
           /\ trace' = Append(trace, Event("request", signed, NoResp))
    /\ UNCHANGED <<call, pages, outcome>>

\* lines 172-181: the response arrives; decode, unwrap, first loop test
HandleResponse(resp) ==
    /\ UNCHANGED <<signing, other, wrapped>>
    /\ Running
    /\ Top.pc = "response"
    /\ trace' = Append(trace, Event("response", EmptyRec, resp))
    /\ IF resp.ctype # "application/json"
       THEN Raise(DecodeError)
       ELSE IF ~resp.json
       THEN Raise(Exception("JSONDecodeError"))
       ELSE WhileJobId(Top, TransformData(resp.items))
    /\ UNCHANGED <<call, pages>>

\* line 132: the transport fails (aiohttp raises a ClientError out of the
\* GET); request() has no handler for it
TransportFailure ==
    /\ UNCHANGED <<signing, other, wrapped>>
    /\ Running
    /\ Top.pc = "response"
    /\ trace' = Append(trace, Event("failure", EmptyRec, NoResp))
    /\ Raise(Exception("ClientError"))
    /\ UNCHANGED <<call, pages>>

\* a slip: the poll issued without the wait
SleepSkipped ==
    /\ UNCHANGED <<signing, other, wrapped>>
    /\ Running
    /\ Top.pc = "sleep"
    /\ stack' = SetTop([Top EXCEPT !.pc = "query"])
    /\ UNCHANGED <<call, trace, pages, outcome>>

\* line 182: asyncio.sleep(async_poll_latency) has elapsed
Sleep ==
    /\ UNCHANGED <<signing, other, wrapped>>
    /\ Running
    /\ Top.pc = "sleep"
    /\ trace' = Append(trace, Event("sleep", EmptyRec, NoResp))
    /\ stack' = SetTop([Top EXCEPT !.pc = "query"])
    /\ UNCHANGED <<call, pages, outcome>>

\* line 183: self.queryAsyncJobResult(jobid=data['jobid']) enters request()
Query ==
    /\ UNCHANGED <<signing, other, wrapped>>
    /\ Running
    /\ Top.pc = "query"
    /\ stack' = Append(SetTop([Top EXCEPT !.pc = "polling"]),
                       RequestEntry(QueryAsyncJobResult, [jobid |-> Top.data.val.jobid]))
    /\ UNCHANGED <<call, trace, pages, outcome>>

\* lines 184-194, then the loop test of line 181: the poll has returned
JobStatus ==
    /\ UNCHANGED <<signing, other, wrapped>>
    /\ Running
    /\ Top.pc = "polled"
    /\ LET data == Top.data.val
       IN  IF "jobstatus" \notin DOMAIN data
           THEN Raise(Exception("KeyError"))
           ELSE IF data.jobstatus # 0
           THEN IF "jobresultcode" \notin DOMAIN data
                THEN Raise(Exception("KeyError"))
                ELSE IF JobSucceeded(data)
                THEN /\ stack' = SetTop([Top EXCEPT !.data = JobResult(data), !.pc = "paginate"])
                     /\ UNCHANGED outcome
                ELSE Raise(AsyncJobError(data))
           ELSE WhileJobId(Top, Top.data)
    /\ UNCHANGED <<call, trace, pages>>

\* lines 135-155: the pagination step of request() on the resolved payload
Paginate ==
    /\ UNCHANGED <<signing, other, wrapped>>
    /\ Running
    /\ Top.pc = "paginate"
    /\ pages' = IF Len(stack) = 1 THEN Append(pages, Top.data) ELSE pages
    /\ IF Top.data.type = "NoneType"
       THEN Raise(Exception("AttributeError"))
       ELSE IF Top.data.type = "list"
       THEN Raise(Exception("TypeError"))
       ELSE LET data == Top.data.val
            IN  IF "count" \notin DOMAIN data
                THEN IF EmptyPage(data)
                     THEN Return(Dict(Top.final_data))
                     ELSE Return(Top.data)
                ELSE LET rest == Without(data, "count")
                         final_data == AddCount(Accumulate(Top.final_data, rest), data.count)
                     IN  IF (DOMAIN rest) \cap IntKeys # {}
                         THEN Raise(Exception("TypeError"))
                         ELSE IF "page" \notin DOMAIN Top.kwargs
                         THEN Raise(Exception("KeyError"))
                         ELSE IF LastPage(data.count)
                         THEN Return(Dict(final_data))
                         ELSE /\ stack' = SetTop([Top EXCEPT
                                                    !.final_data = final_data,
                                                    !.kwargs = [@ EXCEPT !.page = @ + 1],
                                                    !.pc = "get"])
                              /\ UNCHANGED outcome
    /\ UNCHANGED <<call, trace>>

Next ==
    \/ \E c \in Commands : \E i \in 1..Len(CallerParams) : Request(c, CallerParams[i])
    \/ Get
    \/ \E i \in 1..Len(Responses) : HandleResponse(Responses[i])
    \/ TransportFailure
    \/ Sleep
    \/ Query
    \/ JobStatus
    \/ Paginate

Spec == Init /\ [][Next]_vars

(* ---------------------------- _sign on its own -------------------------- *)

InitSign ==
    /\ call = NoCall
    /\ stack = <<>>
    /\ trace = <<>>
    /\ pages = <<>>
    /\ outcome = NoOutcome
    /\ other = Idle
    /\ wrapped = NotWrapped
    /\ \E ix \in SignInputs : signing = [arg |-> PoolItems(ix), out |-> <<>>, n |-> 0]

\* _sign(url_parameters) is called; it changes the dict in place and returns
\* it, so that a second call signs what the first one left
SignParams ==
    /\ signing.n < MaxSigns
    /\ signing' = [signing EXCEPT
                      !.out = SignItems(IF signing.n = 0 THEN signing.arg ELSE signing.out),
                      !.n = @ + 1]
    /\ UNCHANGED <<call, stack, trace, pages, outcome, other, wrapped>>

NextSign == SignParams

SpecSign == InitSign /\ [][NextSign]_vars

(* ------------------- two calls on the same client ---------------------- *)

\* the answers the server gives while two calls are under way
PairResponses ==
    <<Json(Wrap("a", Dict(PFull))), Json(Wrap("a", Dict(PShort))), Json(Wrap("a", Dict(PJob))),
      Json(Wrap("a", Dict(POk))), Json(Wrap("a", Dict(PFail))),
      [ctype |-> "text/plain", json |-> FALSE, items |-> <<>>, text |-> PlainText]>>

\* what the running call holds: the arguments and locals of its frames, what
\* it has sent and received, what it has handed back
Locals ==
    [call |-> call, stack |-> stack, trace |-> trace, pages |-> pages, outcome |-> outcome]

\* the running coroutine waits for the event loop: at the GET of line 132, at
\* the sleep of line 182, before it is called and after it is done
AtAwait == IF Running THEN Top.pc \in {"response", "sleep"} ELSE TRUE

\* a slip: kwargs kept on the client object, so that a call finds there the
\* kwargs of the call that ran in between
ResumeWithClientKwargs(own, theirs) ==
    IF own.stack # <<>> /\ theirs.stack # <<>>
    THEN [own EXCEPT !.stack[Len(own.stack)].kwargs = theirs.stack[Len(theirs.stack)].kwargs]
    ELSE own

\* the event loop resumes a coroutine: it finds its arguments and locals as
\* it left them (request() keeps kwargs, final_data and data in its frame)
Resume(own, theirs) == own

\* the event loop suspends the running call at an await and runs the other one
Switch ==
    /\ AtAwait
    /\ other # Locals
    /\ other' = Locals
    /\ LET resumed == Resume(other, Locals)
       IN  /\ call' = resumed.call
           /\ stack' = resumed.stack
           /\ trace' = resumed.trace
           /\ pages' = resumed.pages
           /\ outcome' = resumed.outcome
    /\ UNCHANGED <<signing, wrapped>>

NextPair ==
    \/ \E c \in Commands : \E i \in 1..Len(CallerParams) : Request(c, CallerParams[i])
    \/ Get
    \/ \E i \in 1..Len(PairResponses) : HandleResponse(PairResponses[i])
    \/ TransportFailure
    \/ Sleep
    \/ Query
    \/ JobStatus
    \/ Paginate
    \/ Switch

SpecPair == Init /\ [][NextPair]_vars

(* ------------------------ the add_signature decorator ------------------- *)

\* the secret the decorator is given
WrapSecret == "Test"

\* the parameters of the decorator's test
FixtureParams ==
    <<<<"test_image", "vm_image_centos">>, <<"test_disk", 20>>, <<"test_memory", "100.0">>>>

\* wrapper(self, *args, **kwargs) called with `args` positional arguments and
\* with kwargs holding params (<<url_params>>) or not (<<>>): what the decorated
\* function f is called with (seen), and the exception that leaves the wrapper.
\* Without a positional argument the call of wrapper itself fails (self is
\* missing). With params, url_params.iterkeys() raises AttributeError (a dict
\* has no iterkeys) before url_params['signature'] is assigned, and
\* `finally: return f(...)` discards the exception and calls f.
AddSignature(args, kwargs) ==
    IF args = 0 THEN [seen |-> <<>>, raised |-> "TypeError"]
    ELSE [seen |-> <<kwargs>>, raised |-> ""]

InitWrap ==
    /\ call = NoCall
    /\ stack = <<>>
    /\ trace = <<>>
    /\ pages = <<>>
    /\ outcome = NoOutcome
    /\ signing = NotSigning
    /\ other = Idle
    /\ \E args \in {0, 1} :
            \/ wrapped = [NotWrapped EXCEPT !.args = args]
            \/ wrapped = [NotWrapped EXCEPT !.args = args, !.kwargs = <<FixtureParams>>]
            \/ \E ix \in SignInputs :
                    wrapped = [NotWrapped EXCEPT !.args = args, !.kwargs = <<PoolItems(ix)>>]

\* the decorated function is called
CallWrapped ==
    /\ ~wrapped.done
    /\ LET r == AddSignature(wrapped.args, wrapped.kwargs)
       IN  wrapped' = [wrapped EXCEPT !.seen = r.seen, !.raised = r.raised, !.done = TRUE]
    /\ UNCHANGED <<call, stack, trace, pages, outcome, signing, other>>

NextWrap == CallWrapped

SpecWrap == InitWrap /\ [][NextWrap]_vars

(* ------------------------- dynamic dispatch ---------------------------- *)

\* the keyword arguments the callers of this part pass: none, a parameter of
\* the command, a `command` entry of their own, and values of their own for
\* the entries that request() sets
AttrParams ==
    <<EmptyRec, [page |-> 3], [command |-> DeployCmd], [command |-> ListCmd],
      [apikey |-> "key", response |-> "key", Name |-> "Vm"]>>

\* a slip: the attribute name lower-cased on the way to request()
GetAttrLower(command, kwargs) == Update([command |-> Lower(command)], kwargs)

\* __getattr__(command)(**kwargs): partial(self.request, command=command)
\* called with kwargs; the keywords of the call come over those of the partial.
\* The keyword arguments that request() is called with
GetAttr(command, kwargs) == Update([command |-> command], kwargs)

\* the caller invokes client.<command>(**kwargs)
CallAttr(command, kwargs) ==
    /\ UNCHANGED <<signing, other, wrapped>>
    /\ call = NoCall
    /\ LET kw == GetAttr(command, kwargs)
       IN  /\ call' = [command |-> kw.command, params |-> Without(kw, "command"),
                       via |-> "getattr", name |-> command, given |-> kwargs]
           /\ stack' = <<RequestEntry(kw.command, Without(kw, "command"))>>
    /\ UNCHANGED <<trace, pages, outcome>>

\* the caller invokes client.request(command=command, **kwargs): python
\* rejects the call when kwargs holds `command` as well
CallRequest(command, kwargs) ==
    /\ UNCHANGED <<signing, other, wrapped>>
    /\ call = NoCall
    /\ call' = [command |-> command, params |-> Without(kwargs, "command"),
                via |-> "request", name |-> command, given |-> kwargs]
    /\ IF "command" \in DOMAIN kwargs
       THEN Raise(Exception("TypeError"))
       ELSE /\ stack' = <<RequestEntry(command, kwargs)>>
            /\ UNCHANGED outcome
    /\ UNCHANGED <<trace, pages>>

NextAttr ==
    \/ \E c \in Commands : \E i \in 1..Len(AttrParams) : CallAttr(c, AttrParams[i])
    \/ \E c \in Commands : \E i \in 1..Len(AttrParams) : CallRequest(c, AttrParams[i])
    \/ Get
    \/ \E i \in 1..Len(PairResponses) : HandleResponse(PairResponses[i])
    \/ TransportFailure
    \/ Sleep
    \/ Query
    \/ JobStatus
    \/ Paginate

SpecAttr == Init /\ [][NextAttr]_vars

TypeOK ==
    /\ outcome.kind \in {"none", "return", "raise"}
    /\ Len(stack) <= 2
    /\ NumRequests <= MaxRequests

(* ------------------------ vocabulary of the claims --------------------- *)

\* the requests of the outer call (command requests: one per page)
OuterRequests == SelectSeq(trace, LAMBDA e : e.ev = "request" /\ e.level = 1)

\* the job-status requests
PollRequests == SelectSeq(trace, LAMBDA e : e.ev = "request" /\ e.level = 2)

Finished == outcome.kind # "none"

Returned(value) == outcome = [kind |-> "return", value |-> value]

IsResponse(e, level) == e.ev = "response" /\ e.level = level

\* the response decodes: declared and parseable as JSON
Decodes(resp) == resp.ctype = "application/json" /\ resp.json

\* the unwrapped payload of a decodable response is a mapping
HasDictPayload(e) ==
    /\ Decodes(e.resp)
    /\ Len(e.resp.items) >= 1
    /\ e.resp.items[1].value.type = "dict"

PayloadOf(e) == e.resp.items[1].value.val

\* the last thing that happened is a job-status response whose payload the
\* poll (request of queryAsyncJobResult) hands back to the poll loop
PollAnswered ==
    /\ Len(trace) >= 1
    /\ IsResponse(trace[Len(trace)], 2)
    /\ HasDictPayload(trace[Len(trace)])
    /\ "count" \notin DOMAIN PayloadOf(trace[Len(trace)])
    /\ DOMAIN PayloadOf(trace[Len(trace)]) # {}

Polled == PayloadOf(trace[Len(trace)])

\* the poll loop has looked at the poll's payload (lines 184-194 have run)
PollInspected == stack = <<>> \/ (Len(stack) = 1 /\ Top.pc # "polled")

\* a list-shaped page: count plus keys holding sequences
CountedPage(p) ==
    /\ p.type = "dict"
    /\ "count" \in DOMAIN p.val
    /\ (DOMAIN p.val) \cap IntKeys = {"count"}

RECURSIVE ConcatKey(_, _)
ConcatKey(ps, k) ==
    IF Len(ps) = 0 THEN <<>>
    ELSE (IF k \in DOMAIN Head(ps).val THEN Head(ps).val[k] ELSE <<>>) \o ConcatKey(Tail(ps), k)

RECURSIVE SumCount(_)
SumCount(ps) == IF Len(ps) = 0 THEN 0 ELSE Head(ps).val.count + SumCount(Tail(ps))

\* the accumulator the pages ps must give: {} for no page
AccumulatorOf(ps) ==
    IF Len(ps) = 0 THEN Dict(EmptyRec)
    ELSE Dict([k \in UNION {DOMAIN ps[i].val : i \in 1..Len(ps)} |->
                 IF k = "count" THEN SumCount(ps) ELSE ConcatKey(ps, k)])

Front(ps) == SubSeq(ps, 1, Len(ps) - 1)

Last(ps) == ps[Len(ps)]

\* pages 1..k all carry count, full up to k-1, short at k
PagesToShort(ps) ==
    /\ Len(ps) >= 1
    /\ \A i \in 1..Len(ps) : CountedPage(ps[i])
    /\ \A i \in 1..(Len(ps) - 1) : ps[i].val.count >= PageSize
    /\ Last(ps).val.count < PageSize

(* -------------------------------- claims ------------------------------- *)

\* C1: a list command answered by pages 1..k, each with count, full on
\* 1..k-1 and short on k, returns the accumulator whose every non-count key
\* is the concatenation in page order of that key's sequences, and whose
\* count is the sum of the per-page counts.
C1_Accumulation ==
    (IsListCommand(call.command) /\ Finished /\ PagesToShort(pages))
        => Returned(AccumulatorOf(pages))

C1_Witness ==
    /\ IsListCommand(call.command)
    /\ PagesToShort(pages)
    /\ Len(pages) = 3
    /\ pages[1] = Dict(PFull)
    /\ pages[2] = Dict(PFullTwoKeys)
    /\ outcome.kind = "return"
    /\ outcome.value.val.response = <<"e1", "e2", "e2">>
    /\ outcome.value.val.count = PageSize + PageSize + 1 + PageSize - 1

\* C2: pagination stops at the first page whose count is below the page
\* size: the call returns right after accumulating it, having issued
\* exactly as many page requests as pages; a page with count >= page size
\* is followed by the request for the next page.
C2_StopsAtShortPage ==
    IsListCommand(call.command) =>
        \A i \in 1..Len(pages) :
            CountedPage(pages[i]) =>
                IF pages[i].val.count < PageSize
                THEN /\ i = Len(pages)
                     /\ outcome.kind = "return"
                     /\ Len(OuterRequests) = i
                ELSE /\ Len(OuterRequests) = i =>
                            /\ outcome.kind = "none"
                            /\ Len(stack) = 1
                            /\ Top.pc = "get"
                            /\ Top.kwargs.page = i + 1
                     /\ Len(OuterRequests) > i => OuterRequests[i + 1].params.page = i + 1

C2_Witness ==
    /\ IsListCommand(call.command)
    /\ Len(pages) = 2
    /\ pages[1] = Dict(PFull)
    /\ pages[2] = Dict(PShort)
    /\ Len(OuterRequests) = 2
    /\ outcome.kind = "return"

\* the poll payload of a finished job
Terminal(d) == "jobstatus" \in DOMAIN d /\ d.jobstatus # 0

\* the success shape: exit code zero and a jobresult
SuccessShape(d) ==
    /\ "jobresultcode" \in DOMAIN d
    /\ d.jobresultcode = 0
    /\ "jobresult" \in DOMAIN d

\* a payload that the pagination step of request() returns as it is
PlainPayload(p) == p.type = "dict" /\ "count" \notin DOMAIN p.val /\ DOMAIN p.val # {}

\* C3: when a poll returns a payload with jobstatus # 0, jobresultcode = 0
\* and a jobresult, the poll loop resolves to exactly the value of jobresult
\* (not the job-status payload around it): that value is what the pipeline
\* goes on with, no async-job error is raised, and a call that returns a
\* resolved payload as it is returns jobresult.
C3_AsyncSuccess ==
    (PollAnswered /\ Terminal(Polled) /\ SuccessShape(Polled) /\ PollInspected) =>
        /\ (Len(stack) = 1 /\ Top.pc = "paginate") => Top.data = Polled.jobresult
        /\ (Len(stack) = 1) => Top.pc \in {"paginate", "get"}
        /\ (Finished \/ (Len(stack) = 1 /\ Top.pc = "get")) =>
                /\ Len(pages) >= 1
                /\ Last(pages) = Polled.jobresult
        /\ outcome.kind = "raise" => outcome.value.type # "CloudStackClientException"
        /\ (Finished /\ PlainPayload(Polled.jobresult)) => Returned(Polled.jobresult)

C3_Witness ==
    /\ PollAnswered
    /\ Polled = POk
    /\ call.command = DeployCmd
    /\ Returned(Dict(PText))

\* the async-job error carrying the payload's errorcode and errortext, or
\* None for the ones it lacks
ExpectedJobError(d) ==
    [type |-> "CloudStackClientException",
     message |-> "Async CloudStack call failed!",
     error_code |-> IF "errorcode" \in DOMAIN d THEN <<d.errorcode>> ELSE <<>>,
     error_text |-> IF "errortext" \in DOMAIN d THEN <<d.errortext>> ELSE <<>>,
     response |-> <<Dict(d)>>]

C4_WitnessNoFields ==
    /\ PollAnswered
    /\ Polled = PFailBare
    /\ outcome.kind = "raise"
    /\ outcome.value.error_code = <<>>

\* C5: the poll loop is left only on a terminal poll response: the call
\* never returns a result taken from a poll payload whose jobstatus is 0.
C5_NeverReturnsPending ==
    (PollAnswered /\ "jobstatus" \in DOMAIN Polled /\ Polled.jobstatus = 0)
        => outcome.kind # "return"

\* what the code does keep: a pending payload that carries jobid is followed
\* by another round of polling
C5_PendingWithJobIdPollsOn ==
    (PollAnswered /\ "jobstatus" \in DOMAIN Polled /\ Polled.jobstatus = 0
        /\ "jobid" \in DOMAIN Polled /\ PollInspected) =>
        /\ outcome.kind = "none"
        /\ Len(stack) = 1
        /\ Top.pc \in {"sleep", "query"}

\* C6: an empty page (no count, no other key) ends a list command with the
\* accumulator of the pages before it, unchanged by the empty page, and no
\* further request is issued; an empty first page gives {}.
C6_EmptyPage ==
    (IsListCommand(call.command) /\ Len(pages) >= 1 /\ Last(pages) = Dict(EmptyRec)) =>
        /\ Returned(AccumulatorOf(Front(pages)))
        /\ stack = <<>>
        /\ Len(OuterRequests) = Len(pages)
        /\ Len(pages) = 1 => Returned(Dict(EmptyRec))

C6_Witness ==
    /\ IsListCommand(call.command)
    /\ Len(pages) = 3
    /\ Last(pages) = Dict(EmptyRec)
    /\ Returned(Dict([count |-> PageSize + PageSize + 1,
                       response |-> <<"e1", "e2">>, other |-> <<"e3">>]))

\* C7: for every decoded response with exactly one top-level key, the
\* payload handed to the rest of the pipeline is the value under that key,
\* whatever the key's name.
C7_EnvelopeUnwrap ==
    (/\ Len(trace) >= 1
     /\ Last(trace).ev = "response"
     /\ Decodes(Last(trace).resp)
     /\ Len(Last(trace).resp.items) = 1
     /\ Len(stack) = Last(trace).level
     /\ Top.pc \in {"paginate", "sleep"})
        => Top.data = Last(trace).resp.items[1].value

C7_Witness ==
    /\ Len(trace) >= 1
    /\ Last(trace).ev = "response"
    /\ Decodes(Last(trace).resp)
    /\ Len(Last(trace).resp.items) = 1
    /\ Last(trace).resp.items[1].key = "b"
    /\ Len(stack) = Last(trace).level
    /\ Top.pc = "paginate"
    /\ Top.data = Dict(PShort)

\* C8: every response whose body cannot be decoded as JSON, whether or not
\* its declared content type is JSON, makes the call fail with the decode
\* error.
C8_UndecodableIsDecodeError ==
    (Len(trace) >= 1 /\ Last(trace).ev = "response" /\ ~Last(trace).resp.json)
        => outcome = [kind |-> "raise", value |-> DecodeError]

\* C9: a command without the list marker performs exactly one command
\* request, never a further page, and returns that request's resolved
\* payload, for every payload shape, also one that contains count.
C9_NonListSingleRequest ==
    (call # NoCall /\ ~IsListCommand(call.command)) =>
        /\ Len(OuterRequests) <= 1
        /\ (Len(pages) >= 1 /\ pages[1].type = "dict") => Returned(pages[1])

HasJobId(e) == HasDictPayload(e) /\ "jobid" \in DOMAIN PayloadOf(e)

\* the answer to a command request returned without polling and as it is
SynchronousPayload(e) ==
    /\ HasDictPayload(e)
    /\ "jobid" \notin DOMAIN PayloadOf(e)
    /\ "count" \notin DOMAIN PayloadOf(e)

\* C10: a job-status poll is issued if and only if the unwrapped payload of
\* a command request contains jobid and the command is not the job-status
\* query (later rounds follow a poll response); a payload without jobid is
\* returned unchanged with zero polls; the job-status query itself issues
\* one request and returns its payload though it contains jobid.
C10_PollIffJobId ==
    /\ \A i \in 1..Len(trace) :
          IsResponse(trace[i], 1) =>
              LET triggers == AwaitFinalResult(call.command) /\ HasJobId(trace[i])
              IN  IF i < Len(trace)
                  THEN (trace[i + 1].ev = "sleep") <=> triggers
                  ELSE (Len(stack) = 1 /\ Top.pc = "sleep") <=> triggers
    /\ \A i \in 1..Len(trace) :
          trace[i].ev = "sleep" =>
              /\ i > 1
              /\ trace[i - 1].ev = "response"
              /\ i < Len(trace) =>
                    /\ trace[i + 1].ev = "request"
                    /\ trace[i + 1].level = 2
                    /\ trace[i + 1].params.command = QueryAsyncJobResult
    /\ \A i \in 1..Len(trace) :
          (trace[i].ev = "request" /\ trace[i].level = 2) =>
              (i > 1 /\ trace[i - 1].ev = "sleep")
    /\ (Len(trace) >= 2 /\ IsResponse(trace[2], 1) /\ SynchronousPayload(trace[2])
            /\ ~(Len(stack) = 1 /\ Top.pc = "paginate")) =>
          /\ Returned(Dict(PayloadOf(trace[2])))
          /\ Len(trace) = 2
    /\ call.command = QueryAsyncJobResult =>
          /\ PollRequests = <<>>
          /\ Len(stack) <= 1
          /\ \A i \in 1..Len(trace) : trace[i].ev # "sleep"
          /\ (Len(trace) >= 2 /\ HasJobId(trace[2])
                  /\ "count" \notin DOMAIN PayloadOf(trace[2])
                  /\ ~(Len(stack) = 1 /\ Top.pc = "paginate")) =>
                /\ Returned(Dict(PayloadOf(trace[2])))
                /\ NumRequests = 1

C10_Witness ==
    /\ call.command = QueryAsyncJobResult
    /\ NumRequests = 1
    /\ Returned(Dict(POk))

C10_WitnessPolled ==
    /\ call.command = DeployCmd
    /\ Len(PollRequests) = 2
    /\ Returned(Dict(PText))

\* the exception the code raises for what the event brought: a transport
\* failure, a response not declared as JSON, a failed job
IsTransportError(e) == e.ev = "failure"

IsDecodeError(e) == e.ev = "response" /\ e.resp.ctype # "application/json"

IsJobError(e) ==
    /\ IsResponse(e, 2)
    /\ HasDictPayload(e)
    /\ "count" \notin DOMAIN PayloadOf(e)
    /\ Terminal(PayloadOf(e))
    /\ "jobresultcode" \in DOMAIN PayloadOf(e)
    /\ ~SuccessShape(PayloadOf(e))

\* C11: an error is terminal for the call: when a page request or a poll
\* ends in a decode error, an async-job error or a transport error, the
\* call ends with that error, never with the partial accumulator, and
\* issues no request after it.
C11_ErrorIsTerminal ==
    \A i \in 1..Len(trace) :
        /\ (IsTransportError(trace[i]) \/ IsDecodeError(trace[i]) \/ IsJobError(trace[i])) =>
                /\ i = Len(trace)
                /\ outcome.kind # "return"
        /\ IsTransportError(trace[i]) =>
                /\ stack = <<>>
                /\ outcome = [kind |-> "raise", value |-> Exception("ClientError")]
        /\ IsDecodeError(trace[i]) =>
                /\ stack = <<>>
                /\ outcome.kind = "raise"
                /\ outcome.value.type = "CloudStackClientException"
                /\ outcome.value.message =
                      "Could not decode content. Server did not return json content!"
        /\ (IsJobError(trace[i]) /\ PollInspected) =>
                /\ stack = <<>>
                /\ outcome = [kind |-> "raise", value |-> ExpectedJobError(PayloadOf(trace[i]))]

C11_Witness ==
    /\ IsListCommand(call.command)
    /\ Len(pages) = 2
    /\ pages[1] = Dict(PFull)
    /\ Len(OuterRequests) = 3
    /\ IsDecodeError(Last(trace))
    /\ outcome.kind = "raise"

C11_WitnessJob ==
    /\ IsListCommand(call.command)
    /\ Len(pages) = 1
    /\ IsJobError(Last(trace))
    /\ outcome.kind = "raise"

\* C12: the protocol of one call is strictly sequential: at most one
\* request is outstanding, and the request for page N+1 is issued only
\* after page N's response has come, its polling has ended on a terminal
\* response and its payload has been accumulated.
C12_Sequential ==
    /\ \A i \in 1..Len(trace) :
          trace[i].ev = "request" =>
              /\ i < Len(trace) =>
                    /\ trace[i + 1].ev \in {"response", "failure"}
                    /\ trace[i + 1].level = trace[i].level
              /\ (i = Len(trace)) =>
                    /\ Len(stack) = trace[i].level
                    /\ Top.pc = "response"
              /\ (trace[i].level = 1 /\ i > 1) =>
                    /\ trace[i - 1].ev = "response"
                    /\ HasDictPayload(trace[i - 1])
                    /\ trace[i - 1].level = 1 => "count" \in DOMAIN PayloadOf(trace[i - 1])
                    /\ trace[i - 1].level = 2 =>
                          /\ Terminal(PayloadOf(trace[i - 1]))
                          /\ SuccessShape(PayloadOf(trace[i - 1]))
                          /\ "count" \in DOMAIN PayloadOf(trace[i - 1]).jobresult.val
    /\ Len(OuterRequests) <= Len(pages) + 1
    /\ \A n \in 1..(Len(OuterRequests) - 1) :
          /\ CountedPage(pages[n])
          /\ pages[n].val.count >= PageSize

C12_Witness ==
    /\ IsListCommand(call.command)
    /\ Len(OuterRequests) = 2
    /\ Len(PollRequests) = 1
    /\ Len(trace) >= 6
    /\ trace[6].ev = "request"
    /\ trace[6].level = 1
    /\ trace[5].resp = Json(Wrap("a", Dict(POkFull)))
    /\ pages = <<Dict(PFull)>>

\* C14: every request of a call (the first, each later page, each poll)
\* carries a signature equal to the one computed over exactly the other
\* parameters of that same request; the request of page n is signed with
\* page = n, not with the signature computed for page n - 1.
C14_FreshSignature ==
    \A i \in 1..Len(trace) :
        trace[i].ev = "request" =>
            /\ "signature" \in DOMAIN trace[i].params
            /\ trace[i].params.signature =
                  Hmac(ApiSecret, RequestString(Without(trace[i].params, "signature")))
            /\ \A j \in 1..(i - 1) :
                  (trace[j].ev = "request"
                      /\ Without(trace[j].params, "signature") # Without(trace[i].params, "signature"))
                    => trace[j].params.signature # trace[i].params.signature

C14_Witness ==
    /\ IsListCommand(call.command)
    /\ Len(OuterRequests) = 3
    /\ Len(PollRequests) = 1
    /\ OuterRequests[3].params.page = 3
    /\ OuterRequests[3].params.signature # OuterRequests[2].params.signature

\* the raw decoded structure of a response: its top-level mapping
RawStructure(items) ==
    Dict([k \in {items[i].key : i \in 1..Len(items)} |->
            (CHOOSE i \in 1..Len(items) : items[i].key = k).value])

\* C18: when the decoded top-level structure has zero keys or more than
\* one key, the envelope step passes the raw structure through unchanged
\* as the payload (no single key's value, no None).
C18_PassThrough ==
    (/\ Len(trace) >= 1
     /\ Last(trace).ev = "response"
     /\ Decodes(Last(trace).resp)
     /\ Len(Last(trace).resp.items) # 1)
        => /\ outcome.kind # "raise"
           /\ (Len(stack) = Last(trace).level /\ Top.pc \in {"paginate", "sleep"})
                 => Top.data = RawStructure(Last(trace).resp.items)

\* C19: the decode error raised for a non-JSON response carries the raw
\* response text.
C19_DecodeErrorCarriesText ==
    (outcome.kind = "raise" /\ IsDecodeError(Last(trace)))
        => outcome.value.response = <<Last(trace).resp.text>>

\* C20: a page whose payload has no count but is not empty is returned as
\* it is, not merged into and not replaced by the accumulator of the pages
\* before it, and no further request is issued.
C20_NonListPage ==
    (Len(pages) >= 1 /\ PlainPayload(Last(pages))) =>
        /\ Returned(Last(pages))
        /\ stack = <<>>
        /\ Len(OuterRequests) = Len(pages)

C20_Witness ==
    /\ IsListCommand(call.command)
    /\ Len(pages) = 3
    /\ pages[1] = Dict(PFull)
    /\ pages[3] = Dict(PText)
    /\ Returned(Dict(PText))


(* ------------------------- claims about _sign --------------------------- *)

SigOf(items) == ItemOf(items, "signature")[2]

Unsigned(items) == SelectSeq(items, LAMBDA it : it[1] # "signature")

\* the same entries inserted in another order
Permuted(items, f) == [i \in 1..Len(items) |-> items[f[i]]]

\* values a signature left in the dict can have
StaleSignatures == {Hmac("OLD", <<>>), Hmac(ApiSecret, <<>>)}

Signed == signing.n >= 1

\* C15: the signature of a non-empty parameter dict is a function of the secret
\* and of the entries other than `signature`: every insertion order of the
\* entries gives it, the dict with its `signature` entry removed gives it (when
\* entries remain), the dict with a stale `signature` of any value added gives
\* it, and signing the signed dict again gives the same dict.
C15_SignatureDeterminism ==
    (Signed /\ signing.arg # <<>>) =>
        LET P == Unsigned(signing.arg)
            sig == SigOf(SignItems(signing.arg))
        IN  /\ \A f \in Permutations(1..Len(signing.arg)) :
                    SigOf(SignItems(Permuted(signing.arg, f))) = sig
            /\ P # <<>> => SigOf(SignItems(P)) = sig
            /\ \A s \in StaleSignatures :
                    /\ SigOf(SignItems(Append(P, <<"signature", s>>))) = sig
                    /\ SigOf(SignItems(<<<<"signature", s>>>> \o P)) = sig
            /\ SigOf(signing.out) = sig
            /\ AsDict(signing.out) = AsDict(SignItems(signing.arg))

\* a dict of three entries, not in sorted order, holding a stale signature,
\* signed twice
C15_Witness ==
    /\ signing.n = 2
    /\ Len(signing.arg) = 3
    /\ "signature" \in KeysOf(signing.arg)
    /\ signing.arg[1][1] = "apikey"
    /\ signing.arg[3][1] = "Name"
    /\ SigOf(signing.out) = Hmac(ApiSecret, <<<<"name", "vm">>, <<"apikey", "key">>>>)

LowerSet(items) ==
    {<<LowerKey[items[i][1]], LowerText[items[i][2]]>> : i \in 1..Len(items)}

\* two dicts that are the same set of entries once keys and values are lower-cased
SameLogicalSet(P, Q) ==
    /\ Len(P) = Cardinality(LowerSet(P))
    /\ Len(Q) = Cardinality(LowerSet(Q))
    /\ \A i, j \in 1..Len(P) : LowerKey[P[i][1]] = LowerKey[P[j][1]] => i = j
    /\ \A i, j \in 1..Len(Q) : LowerKey[Q[i][1]] = LowerKey[Q[j][1]] => i = j
    /\ LowerSet(P) = LowerSet(Q)

AscendingByKey(pairs) ==
    \A i, j \in 1..Len(pairs) : i < j => Rank(pairs[i][1]) < Rank(pairs[j][1])

C17_EmptyNoOp ==
    Signed =>
        IF signing.arg = <<>>
        THEN signing.out = <<>>
        ELSE "signature" \in KeysOf(signing.out)

\* the empty dict was signed
C17_Witness == signing.n = 1 /\ signing.arg = <<>> /\ signing.out = <<>>

\* a dict holding nothing but a stale signature was signed
C17_WitnessStaleOnly ==
    /\ signing.n = 1
    /\ KeysOf(signing.arg) = {"signature"}
    /\ SigOf(signing.out) = Hmac(ApiSecret, <<>>)

(* ------------------- a call run alone, as a function ------------------- *)

\* the answers a call has got, in order: responses and transport failures
AnswersIn(t) == SelectSeq(t, LAMBDA e : e.ev \in {"response", "failure"})

\* the parameters of the requests a call has sent, in order
SentIn(t) == [i \in 1..Len(RequestsIn(t)) |-> RequestsIn(t)[i].params]

SoloTop(st) == st.stack[Len(st.stack)]

SoloSetTop(st, f) == [st EXCEPT !.stack[Len(st.stack)] = f]

SoloRaise(st, exc) ==
    [st EXCEPT !.stack = <<>>, !.outcome = [kind |-> "raise", value |-> exc]]

SoloReturn(st, value) ==
    IF Len(st.stack) = 1
    THEN [st EXCEPT !.stack = <<>>, !.outcome = [kind |-> "return", value |-> value]]
    ELSE [st EXCEPT !.stack = [SubSeq(st.stack, 1, Len(st.stack) - 1) EXCEPT
                                  ![Len(st.stack) - 1] = [@ EXCEPT !.data = value, !.pc = "polled"]]]

SoloWhileJobId(st, data) ==
    LET frame == SoloTop(st)
    IN  IF ~AwaitFinalResult(frame.command)
        THEN SoloSetTop(st, [frame EXCEPT !.data = data, !.pc = "paginate"])
        ELSE IF data.type = "NoneType"
        THEN SoloRaise(st, Exception("TypeError"))
        ELSE IF data.type = "dict" /\ "jobid" \in DOMAIN data.val
        THEN SoloSetTop(st, [frame EXCEPT !.data = data, !.pc = "sleep"])
        ELSE SoloSetTop(st, [frame EXCEPT !.data = data, !.pc = "paginate"])

SoloGet(st) ==
    LET signed == Sign(SoloTop(st).kwargs)
    IN  [SoloSetTop(st, [SoloTop(st) EXCEPT !.kwargs = signed, !.pc = "response"])
            EXCEPT !.sent = Append(@, signed)]

SoloAnswer(st, e) ==
    IF e.ev = "failure" THEN SoloRaise(st, Exception("ClientError"))
    ELSE IF e.resp.ctype # "application/json" THEN SoloRaise(st, DecodeError)
    ELSE IF ~e.resp.json THEN SoloRaise(st, Exception("JSONDecodeError"))
    ELSE SoloWhileJobId(st, TransformData(e.resp.items))

SoloQuery(st) ==
    LET frame == SoloTop(st)
    IN  [st EXCEPT !.stack =
            Append(SoloSetTop(st, [frame EXCEPT !.pc = "polling"]).stack,
                   RequestEntry(QueryAsyncJobResult, [jobid |-> frame.data.val.jobid]))]

SoloJobStatus(st) ==
    LET frame == SoloTop(st)
        data == frame.data.val
    IN  IF "jobstatus" \notin DOMAIN data
        THEN SoloRaise(st, Exception("KeyError"))
        ELSE IF data.jobstatus # 0
        THEN IF "jobresultcode" \notin DOMAIN data
             THEN SoloRaise(st, Exception("KeyError"))
             ELSE IF JobSucceeded(data)
             THEN SoloSetTop(st, [frame EXCEPT !.data = JobResult(data), !.pc = "paginate"])
             ELSE SoloRaise(st, AsyncJobError(data))
        ELSE SoloWhileJobId(st, frame.data)

SoloPaginate(st) ==
    LET frame == SoloTop(st)
    IN  IF frame.data.type = "NoneType"
        THEN SoloRaise(st, Exception("AttributeError"))
        ELSE IF frame.data.type = "list"
        THEN SoloRaise(st, Exception("TypeError"))
        ELSE LET data == frame.data.val
             IN  IF "count" \notin DOMAIN data
                 THEN IF EmptyPage(data)
                      THEN SoloReturn(st, Dict(frame.final_data))
                      ELSE SoloReturn(st, frame.data)
                 ELSE LET rest == Without(data, "count")
                          final_data == AddCount(Accumulate(frame.final_data, rest), data.count)
                      IN  IF (DOMAIN rest) \cap IntKeys # {}
                          THEN SoloRaise(st, Exception("TypeError"))
                          ELSE IF "page" \notin DOMAIN frame.kwargs
                          THEN SoloRaise(st, Exception("KeyError"))
                          ELSE IF LastPage(data.count)
                          THEN SoloReturn(st, Dict(final_data))
                          ELSE SoloSetTop(st, [frame EXCEPT
                                                  !.final_data = final_data,
                                                  !.kwargs = [@ EXCEPT !.page = @ + 1],
                                                  !.pc = "get"])

RECURSIVE SoloRun(_, _)
\* request() run to its end, or to the GET whose answer has not come, on the
\* answers given: [stack, sent, outcome]
SoloRun(st, answers) ==
    IF st.stack = <<>> THEN st
    ELSE LET pc == SoloTop(st).pc
         IN  IF pc = "get" THEN SoloRun(SoloGet(st), answers)
             ELSE IF pc = "response"
             THEN IF answers = <<>> THEN st
                  ELSE SoloRun(SoloAnswer(st, Head(answers)), Tail(answers))
             ELSE IF pc = "sleep"
             THEN SoloRun(SoloSetTop(st, [SoloTop(st) EXCEPT !.pc = "query"]), answers)
             ELSE IF pc = "query" THEN SoloRun(SoloQuery(st), answers)
             ELSE IF pc = "polled" THEN SoloRun(SoloJobStatus(st), answers)
             ELSE SoloRun(SoloPaginate(st), answers)

\* the call c made alone, given the answers that c has got
Solo(c) ==
    SoloRun([stack |-> <<RequestEntry(c.call.command, c.call.params)>>,
             sent |-> <<>>, outcome |-> NoOutcome],
            AnswersIn(c.trace))

IsPrefix(s, t) == Len(s) <= Len(t) /\ \A i \in 1..Len(s) : s[i] = t[i]

\* the call c has sent what it sends alone and, once it is over, has handed
\* back what it hands back alone
AsAlone(c) ==
    c.call # NoCall =>
        LET solo == Solo(c)
            sent == SentIn(c.trace)
        IN  /\ IsPrefix(sent, solo.sent)
            /\ Len(solo.sent) <= Len(sent) + 1
            /\ (c.stack # <<>> /\ c.stack[Len(c.stack)].pc = "response") => sent = solo.sent
            /\ c.stack = <<>> => (sent = solo.sent /\ c.outcome = solo.outcome)

\* C13: with two calls under way on one client, under every interleaving of
\* their awaits (the GET and the poll sleep), each call sends the requests and
\* hands back the result or the exception that it sends and hands back when
\* it runs alone and gets the same answers.
C13_CallsIndependent == AsAlone(Locals) /\ AsAlone(other)

\* both calls are over after being suspended in turn: a paged listing of two
\* pages and an asynchronous command that was polled
C13_Witness ==
    /\ stack = <<>> /\ other.stack = <<>>
    /\ outcome.kind = "return" /\ other.outcome.kind = "return"
    /\ call.command = ListCmd /\ other.call.command = DeployCmd
    /\ Len(SentIn(trace)) = 2 /\ Len(SentIn(other.trace)) = 2
    /\ outcome.value = Dict([count |-> PageSize + PageSize - 1, response |-> <<"e1", "e2">>])
    /\ other.outcome.value = Dict(PText)

(* ---------------------------- later claims ------------------------------ *)

\* the errors the client defines or passes on: its own exception (decode
\* error, async-job error) and the transport's
StructuredErrors == {"CloudStackClientException", "ClientError"}

\* C21: a call that ends, ends with a payload or with a decode error, an
\* async-job error or a transport error, and with no other kind of failure,
\* whatever the shape of the payloads decoded on the way.
C21_StructuredOutcome ==
    outcome.kind = "raise" => outcome.value.type \in StructuredErrors

\* the place in the trace of the last answer to a command request (0: none)
LastOuterAnswer ==
    LET is == {i \in 1..Len(trace) : IsResponse(trace[i], 1)}
    IN  IF is = {} THEN 0 ELSE CHOOSE i \in is : \A j \in is : j <= i

\* what has happened since: the poll loop on that answer
LoopEvents == SubSeq(trace, LastOuterAnswer + 1, Len(trace))

LoopPolls == SelectSeq(LoopEvents, LAMBDA e : e.ev = "request" /\ e.level = 2)

LoopAnswers == SelectSeq(LoopEvents, LAMBDA e : e.level = 2 /\ e.ev \in {"response", "failure"})

\* a poll answered with a job-status payload
JobStatusAnswer(e) ==
    /\ e.ev = "response"
    /\ HasDictPayload(e)
    /\ "count" \notin DOMAIN PayloadOf(e)
    /\ "jobstatus" \in DOMAIN PayloadOf(e)

Pending(e) == PayloadOf(e).jobstatus = 0

\* the poll loop on the last answer has been left
LoopOver ==
    IF stack = <<>> THEN TRUE
    ELSE Len(stack) = 1 /\ Top.pc \in {"paginate", "get", "response"}

\* the server answers every poll with a job-status payload
JobStatusAnswers ==
    /\ Len(LoopPolls) >= 1
    /\ \A i \in 1..Len(LoopAnswers) : JobStatusAnswer(LoopAnswers[i])

\* C22: polling ends exactly when the job does: with the polls of one job
\* answered by n pending payloads (jobstatus 0) and then a terminal one, no
\* poll follows the terminal answer and the poll loop is not left before it,
\* so that n+1 polls are issued; while the answers are pending the call does
\* not end.
C22_PollsUntilTerminal ==
    JobStatusAnswers =>
        /\ \A i \in 1..(Len(LoopAnswers) - 1) : Pending(LoopAnswers[i])
        /\ LoopOver =>
                /\ Len(LoopAnswers) = Len(LoopPolls)
                /\ ~Pending(Last(LoopAnswers))

\* what the code does keep: when every pending answer carries jobid, the
\* loop is left on the terminal answer only
C22_WithJobIdPollsOn ==
    (JobStatusAnswers
        /\ \A i \in 1..Len(LoopAnswers) :
                Pending(LoopAnswers[i]) => "jobid" \in DOMAIN PayloadOf(LoopAnswers[i])) =>
        /\ \A i \in 1..(Len(LoopAnswers) - 1) : Pending(LoopAnswers[i])
        /\ LoopOver =>
                /\ Len(LoopAnswers) = Len(LoopPolls)
                /\ ~Pending(Last(LoopAnswers))

\* three polls of one job: two pending answers, then the terminal one
C22_ThreePolls ==
    /\ JobStatusAnswers
    /\ Len(LoopPolls) = 3
    /\ Len(LoopAnswers) = 3
    /\ Pending(LoopAnswers[1]) /\ Pending(LoopAnswers[2]) /\ ~Pending(LoopAnswers[3])
    /\ outcome.kind = "return"

\* C23: a function decorated with add_signature(secret) and called with
\* params is called with params['signature'] set to the signature of params:
\* base64(HMAC-SHA1(secret, canonical string)), percent-encoded (the value
\* 4eU3C/s4%2BETKxKStBLhgwMPOWXI%3D for the parameters of the test).
C23_WireExact ==
    (wrapped.done /\ wrapped.kwargs # <<>>) =>
        /\ wrapped.raised = ""
        /\ Len(wrapped.seen) = 1
        /\ Len(wrapped.seen[1]) = 1
        /\ "signature" \in KeysOf(wrapped.seen[1][1])
        /\ SigOf(wrapped.seen[1][1]) = Hmac(WrapSecret, UrlEncodeLower(Unsigned(wrapped.kwargs[1])))

\* client.request(command=command, **kwargs) run alone on the answers given:
\* python rejects the call when kwargs holds `command` too
SoloRequest(command, kwargs, answers) ==
    IF "command" \in DOMAIN kwargs
    THEN [stack |-> <<>>, sent |-> <<>>,
          outcome |-> [kind |-> "raise", value |-> Exception("TypeError")]]
    ELSE SoloRun([stack |-> <<RequestEntry(command, kwargs)>>, sent |-> <<>>,
                  outcome |-> NoOutcome], answers)

\* the running call has sent what `solo` sends and, once over, has ended as
\* `solo` ends
SameAs(solo) ==
    LET sent == SentIn(trace)
    IN  /\ IsPrefix(sent, solo.sent)
        /\ Len(solo.sent) <= Len(sent) + 1
        /\ (stack # <<>> /\ Top.pc = "response") => sent = solo.sent
        /\ stack = <<>> => (sent = solo.sent /\ outcome = solo.outcome)

Injected == {"apikey", "command", "response"}

Pagination == {"page", "pagesize"}

\* the i-th command request carries the injected entries and the caller's
\* other parameters as they were given
CarriesInjected(i) ==
    LET sent == OuterRequests[i].params
    IN  /\ sent.apikey = ApiKey
        /\ sent.command = call.command
        /\ sent.response = "json"
        /\ \A k \in DOMAIN call.params \ (Injected \cup Pagination \cup {"signature"}) :
                k \in DOMAIN sent /\ sent[k] = call.params[k]

\* the i-th command request carries the pagination entries of a list
\* command, and otherwise the caller's own, if any, as they were given
CarriesPagination(i) ==
    LET sent == OuterRequests[i].params
    IN  IF IsListCommand(call.command)
        THEN /\ Pagination \subseteq DOMAIN sent
             /\ sent.pagesize = PageSize
             /\ sent.page = i
        ELSE \A k \in Pagination :
                /\ k \in DOMAIN sent <=> k \in DOMAIN call.params
                /\ k \in DOMAIN sent => sent[k] = call.params[k]

\* C25: every command request of a call carries apikey, command and
\* response = json as request() sets them, whatever the caller gave for
\* these keys, and the caller's other parameters unchanged; it carries
\* pagesize = max_page_size and page = the number of the page if and only if
\* the lower-cased command name contains "list": for other commands no
\* pagination parameter is added or altered.
C25_Injection ==
    \A i \in 1..Len(OuterRequests) : CarriesInjected(i) /\ CarriesPagination(i)

\* what the code does keep: the injected entries on every command request,
\* and the pagination entries on every request of a list command and on the
\* first request of any other command
C25_InjectionFirstRequest ==
    \A i \in 1..Len(OuterRequests) :
        /\ CarriesInjected(i)
        /\ (IsListCommand(call.command) \/ i = 1) => CarriesPagination(i)

\* a request was sent for a caller who gave apikey and response values
C25_Overridden ==
    /\ Len(OuterRequests) >= 1
    /\ "Name" \in DOMAIN call.params
    /\ call.params.apikey = "key"
    /\ OuterRequests[1].params.apikey = ApiKey

\* the page numbers of the command requests sent so far, in order
PagesRequested == [i \in 1..Len(OuterRequests) |-> OuterRequests[i].params.page]

\* C26: the pages one list command requests are 1, 2, ..., k in this order,
\* each once, from 1 on even when the caller gave a page of its own, and
\* every page request carries the same pagesize.
C26_PagesInOrder ==
    IsListCommand(call.command) =>
        /\ PagesRequested = [i \in 1..Len(OuterRequests) |-> i]
        /\ \A i \in 1..Len(OuterRequests) :
                OuterRequests[i].params.pagesize = OuterRequests[1].params.pagesize

\* a list command called with page=3 has requested three pages
C26_Witness ==
    /\ IsListCommand(call.command)
    /\ call.params = [page |-> 3]
    /\ PagesRequested = <<1, 2, 3>>

IsPoll(e) == e.ev = "request" /\ e.level = 2

Sleeps == SelectSeq(trace, LAMBDA e : e.ev = "sleep")

\* C27: every job-status poll comes right after one wait of the poll
\* interval, and that wait right after a response of the call: the response
\* that carried jobid for the first poll, the previous poll's response for
\* the later ones.
C27_WaitBeforePoll ==
    \A i \in 1..Len(trace) :
        IsPoll(trace[i]) =>
            /\ i >= 3
            /\ trace[i - 1].ev = "sleep"
            /\ trace[i - 2].ev = "response"

\* two polls of one job, each after its wait
C27_Witness ==
    /\ Len(PollRequests) = 2
    /\ Len(Sleeps) = 2
    /\ Len(OuterRequests) = 1
    /\ outcome.kind = "return"

\* C28: every job-status request sent while one asynchronous answer is
\* resolved carries the jobid of that answer, whatever jobid the pending poll
\* payloads in between hold.
C28_SameJob ==
    \A i \in 1..Len(LoopPolls) :
        LoopPolls[i].params.jobid = PayloadOf(trace[LastOuterAnswer]).jobid

\* lower-casing the keys of the dict does not change their order
OrderKept(P) ==
    \A i, j \in 1..Len(P) :
        Rank(P[i][1]) < Rank(P[j][1]) <=> Rank(LowerKey[P[i][1]]) < Rank(LowerKey[P[j][1]])

====
